---- MODULE Spec2Model ----
(***************************************************************************)
(* Model of screen.py: an ST7735 128x128 panel driven over the luma SPI    *)
(* interface (spi.command / spi.data) with RPi.GPIO pins for reset and     *)
(* backlight.                                                              *)
(*                                                                         *)
(* The transport is modelled at the level of its calls: every              *)
(* GPIO.output, time.sleep, spi.command, spi.data, GPIO.cleanup and        *)
(* spi.cleanup appends one event to the history variable `wire`.  A call   *)
(* of spi.command / spi.data may raise (an Exception), and a               *)
(* KeyboardInterrupt may be raised at any point of main().                 *)
(***************************************************************************)
EXTENDS Integers, Sequences, FiniteSets, TLC

\* ---- PIN DEFINITIONS (screen.py:23, 25) ----
RST == 27
BL == 24

\* GPIO.HIGH / GPIO.LOW
HIGH == 1
LOW == 0

\* ---- LCD PARAMETERS (screen.py:28-29) ----
WIDTH == 128
HEIGHT == 128

\* ---- LCD COMMANDS (screen.py:36-43) ----
ST7735_SWRESET == 1
ST7735_SLPOUT == 17
ST7735_DISPON == 41
ST7735_CASET == 42
ST7735_RASET == 43
ST7735_RAMWR == 44
ST7735_COLMOD == 58

\* ---- bounds of the model ----
\* Number of display_image calls main's endless loop is followed for.
MaxFrames == 2
\* Images of a direct display_image call are up to SizeSlack smaller or
\* larger than the panel, in each direction.
SizeSlack == 1

VARIABLES
    pc,       \* position in main(): the statement about to run
    ip,       \* index of the next step inside lcd_init / display_image
    img,      \* the image argument of the current display_image call
    buf,      \* display_image's local buf
    wire,     \* history of transport calls, in order
    exc,      \* the exception main() has seen: "none", "Exception", "KeyboardInterrupt"
    pending,  \* TRUE while exc is propagating (raised inside a handler)
    shown,    \* number of display_image calls started
    mark,     \* Len(wire) when the current call of display_image / set_window began
    win,      \* <<x0, y0, x1, y1>> of a direct set_window call
    outcome   \* how the run ended: "running", "returned", or the exception that left it

vars == <<pc, ip, img, buf, wire, exc, pending, shown, mark, win, outcome>>

\* ------------------------------------------------------------------
\* Python's integer operators on non-negative integers.

RECURSIVE BitAnd(_, _)
BitAnd(a, b) ==
    IF a = 0 \/ b = 0 THEN 0
    ELSE (a % 2) * (b % 2) + 2 * BitAnd(a \div 2, b \div 2)

RECURSIVE BitOr(_, _)
BitOr(a, b) ==
    IF a = 0 THEN b
    ELSE IF b = 0 THEN a
    ELSE (IF a % 2 = 1 \/ b % 2 = 1 THEN 1 ELSE 0) + 2 * BitOr(a \div 2, b \div 2)

Shl(a, n) == a * (2 ^ n)

Shr(a, n) == a \div (2 ^ n)

\* ------------------------------------------------------------------
\* Images.  An image has a size and a pixel at every (x, y) inside it; the
\* content is either one colour c, or a gradient starting at c.

Image(w, h, c, grad) == [w |-> w, h |-> h, c |-> c, grad |-> grad]

\* Image.new("RGB", (w, h), c)
ImageNew(w, h, c) == Image(w, h, c, FALSE)

\* pix[x, y] is defined inside the image and raises IndexError outside it.
InImage(im, x, y) == x < im.w /\ y < im.h

PixelAt(im, x, y) ==
    IF im.grad
    THEN << (im.c[1] + 2 * x + (y % 2)) % 256,
            (im.c[2] + 2 * y + (x % 2)) % 256,
            (im.c[3] + 3 * x + 5 * y) % 256 >>
    ELSE im.c

\* ------------------------------------------------------------------
\* display_image, lines 86-94: the encoder.

\* The two bytes of a pixel, low byte first.
EncodePixel_low_first(p) ==
    LET rgb == BitOr(BitOr(Shl(BitAnd(p[1], 248), 8), Shl(BitAnd(p[2], 252), 3)),
                     Shr(p[3], 3))
    IN  << BitAnd(rgb, 255), BitAnd(Shr(rgb, 8), 255) >>

\* lines 92-94: the two bytes appended for one pixel.
EncodePixel(p) ==
    LET rgb == BitOr(BitOr(Shl(BitAnd(p[1], 248), 8), Shl(BitAnd(p[2], 252), 3)),
                     Shr(p[3], 3))
    IN  << BitAnd(Shr(rgb, 8), 255), BitAnd(rgb, 255) >>

\* lines 89-94: the iterations x0 <= x < x1 of the inner loop, for one y, in
\* order (evaluated by halves: the appends of the first half come first).
RECURSIVE EncodeRow(_, _, _, _)
EncodeRow(im, y, x0, x1) ==
    IF x0 >= x1 THEN << >>
    ELSE IF x1 = x0 + 1 THEN EncodePixel(PixelAt(im, x0, y))
    ELSE LET xm == (x0 + x1) \div 2
         IN  EncodeRow(im, y, x0, xm) \o EncodeRow(im, y, xm, x1)

\* lines 88-94: the iterations y0 <= y < y1 of the outer loop, in order.
RECURSIVE EncodeRows(_, _, _)
EncodeRows(im, y0, y1) ==
    IF y0 >= y1 THEN << >>
    ELSE IF y1 = y0 + 1 THEN EncodeRow(im, y0, 0, WIDTH)
    ELSE LET ym == (y0 + y1) \div 2
         IN  EncodeRows(im, y0, ym) \o EncodeRows(im, ym, y1)

\* buf when the outer loop runs over the image's height.
EncodeImage_image_height(im) == EncodeRows(im, 0, im.h)

\* lines 87-94: buf after both loops.
EncodeImage(im) == EncodeRows(im, 0, HEIGHT)

\* line 90 raises IndexError when a pixel the loops read is outside the image.
EncodeRaises(im) ==
    ~(\A y \in 0 .. HEIGHT - 1 : \A x \in 0 .. WIDTH - 1 : InImage(im, x, y))

\* ------------------------------------------------------------------
\* Steps: the transport calls a function makes, in program order.

PinStep(pin, level) == [op |-> "pin", arg |-> <<pin, level>>]
SleepStep(ms) == [op |-> "sleep", arg |-> ms]
CmdStep(c) == [op |-> "cmd", arg |-> c]
DataStep(d) == [op |-> "data", arg |-> d]
EncodeStep == [op |-> "encode", arg |-> 0]

\* lcd_init with the reset line driven low, high, low.
lcd_init_inverted_reset ==
    << PinStep(RST, LOW), SleepStep(100),
       PinStep(RST, HIGH), SleepStep(100),
       PinStep(RST, LOW), SleepStep(100),
       CmdStep(ST7735_SWRESET), SleepStep(150),
       CmdStep(ST7735_SLPOUT), SleepStep(150),
       CmdStep(ST7735_COLMOD), DataStep(<<5>>),
       CmdStep(ST7735_DISPON), SleepStep(100) >>

\* lcd_init with time.sleep(0.015) after SLPOUT.
lcd_init_short_sleep ==
    << PinStep(RST, HIGH), SleepStep(100),
       PinStep(RST, LOW), SleepStep(100),
       PinStep(RST, HIGH), SleepStep(100),
       CmdStep(ST7735_SWRESET), SleepStep(150),
       CmdStep(ST7735_SLPOUT), SleepStep(15),
       CmdStep(ST7735_COLMOD), DataStep(<<5>>),
       CmdStep(ST7735_DISPON), SleepStep(100) >>

\* lcd_init with SLPOUT sent before SWRESET.
lcd_init_swapped ==
    << PinStep(RST, HIGH), SleepStep(100),
       PinStep(RST, LOW), SleepStep(100),
       PinStep(RST, HIGH), SleepStep(100),
       CmdStep(ST7735_SLPOUT), SleepStep(150),
       CmdStep(ST7735_SWRESET), SleepStep(150),
       CmdStep(ST7735_COLMOD), DataStep(<<5>>),
       CmdStep(ST7735_DISPON), SleepStep(100) >>

\* lcd_init with COLMOD and its parameter sent in one data frame.
lcd_init_colmod_as_data ==
    << PinStep(RST, HIGH), SleepStep(100),
       PinStep(RST, LOW), SleepStep(100),
       PinStep(RST, HIGH), SleepStep(100),
       CmdStep(ST7735_SWRESET), SleepStep(150),
       CmdStep(ST7735_SLPOUT), SleepStep(150),
       DataStep(<<ST7735_COLMOD, 5>>),
       CmdStep(ST7735_DISPON), SleepStep(100) >>

\* lcd_init, lines 60-74.
lcd_init ==
    << PinStep(RST, HIGH), SleepStep(100),
       PinStep(RST, LOW), SleepStep(100),
       PinStep(RST, HIGH), SleepStep(100),
       CmdStep(ST7735_SWRESET), SleepStep(150),
       CmdStep(ST7735_SLPOUT), SleepStep(150),
       CmdStep(ST7735_COLMOD), DataStep(<<5>>),
       CmdStep(ST7735_DISPON), SleepStep(100) >>

\* set_window with the start pair in CASET and the end pair in RASET.
set_window_pairs(x0, y0, x1, y1) ==
    << CmdStep(ST7735_CASET), DataStep(<<0, x0, 0, y0>>),
       CmdStep(ST7735_RASET), DataStep(<<0, x1, 0, y1>>),
       CmdStep(ST7735_RAMWR) >>

\* set_window, lines 78-82.
set_window(x0, y0, x1, y1) ==
    << CmdStep(ST7735_CASET), DataStep(<<0, x0, 0, x1>>),
       CmdStep(ST7735_RASET), DataStep(<<0, y0, 0, y1>>),
       CmdStep(ST7735_RAMWR) >>

\* display_image with the window ending at (WIDTH, HEIGHT).
display_image_wide(b) ==
    <<EncodeStep>> \o set_window(0, 0, WIDTH, HEIGHT) \o <<DataStep(b)>>

\* display_image with the window set before the frame is encoded.
display_image_window_first(b) ==
    set_window(0, 0, WIDTH - 1, HEIGHT - 1) \o <<EncodeStep, DataStep(b)>>

\* display_image, lines 86-96: encode, set_window, write_data(buf).
display_image(b) ==
    <<EncodeStep>> \o set_window(0, 0, WIDTH - 1, HEIGHT - 1) \o <<DataStep(b)>>

\* The step list of the function main() is inside of.
Steps ==
    IF pc = "lcd_init" THEN lcd_init
    ELSE IF pc \in {"display_image", "call_display_image"} THEN display_image(buf)
    ELSE IF pc = "call_set_window" THEN set_window(win[1], win[2], win[3], win[4])
    ELSE << >>

AtStep == ip \in 1 .. Len(Steps)
Step == Steps[ip]
AtOp(o) == AtStep /\ Step.op = o

\* An event of the history: a transport call and how it ended: "ok", "error"
\* (it raised an Exception) or "interrupted" (KeyboardInterrupt inside it).
Event(s, res) == [op |-> s.op, arg |-> s.arg, res |-> res]
CallEvent(name, res) == [op |-> name, arg |-> 0, res |-> res]

\* lines 123-130: the images of the loop, red first.
img_red == ImageNew(WIDTH, HEIGHT, <<255, 0, 0>>)
img_blue == ImageNew(WIDTH, HEIGHT, <<0, 0, 255>>)
\* LoopImage, but the loop starts with the blue image.
LoopImage_blue_first(n) == IF n % 2 = 0 THEN img_blue ELSE img_red

LoopImage(n) == IF n % 2 = 0 THEN img_red ELSE img_blue

NoImage == ImageNew(0, 0, <<0, 0, 0>>)

\* ------------------------------------------------------------------
\* main()

Init ==
    /\ pc = "setup"
    /\ ip = 0
    /\ img = NoImage
    /\ buf = << >>
    /\ wire = << >>
    /\ exc = "none"
    /\ pending = FALSE
    /\ shown = 0
    /\ mark = 0
    /\ win = <<0, 0, 0, 0>>
    /\ outcome = "running"

\* After the last step of a function: return to the caller.
\* lcd_init returns to line 123; display_image returns to the sleep of
\* line 128 / 131; a direct call returns to its caller.
Advance ==
    IF ip < Len(Steps)
    THEN /\ ip' = ip + 1
         /\ pc' = pc
    ELSE /\ ip' = 0
         /\ pc' = IF pc = "lcd_init" THEN "loop"
                  ELSE IF pc = "display_image" THEN "dwell"
                  ELSE "returned"

\* Where an exception raised at the current position goes (lines 113-140).
\* Inside the try of lines 121-131 both handlers apply; in the try of lines
\* 113-115 only "except Exception" does; anywhere else the exception leaves
\* main().
InMainTry == pc \in {"lcd_init", "loop", "display_image", "dwell"}

\* Raise, but a failed write inside the try of lines 121-131 runs lcd_init
\* again.
Raise_retry(e) ==
    /\ exc' = e
    /\ IF InMainTry /\ e = "Exception"
       THEN /\ pc' = "lcd_init"
            /\ ip' = 1
            /\ pending' = FALSE
            /\ outcome' = outcome
       ELSE IF InMainTry
       THEN /\ pc' = "except_kbd"
            /\ ip' = 0
            /\ pending' = FALSE
            /\ outcome' = outcome
       ELSE /\ pc' = "done"
            /\ ip' = 0
            /\ pending' = TRUE
            /\ outcome' = e

Raise(e) ==
    /\ exc' = e
    /\ ip' = 0
    /\ IF InMainTry
       THEN /\ pc' = IF e = "KeyboardInterrupt" THEN "except_kbd" ELSE "except_exc"
            /\ pending' = FALSE
            /\ outcome' = outcome
       ELSE IF pc = "open" /\ e = "Exception"
       THEN /\ pc' = "open_failed"
            /\ pending' = FALSE
            /\ outcome' = outcome
       ELSE IF pc \in {"except_kbd", "except_exc"}
       THEN \* raised inside a handler: the finally block runs, then it leaves
            /\ pc' = "finally_bl"
            /\ pending' = TRUE
            /\ outcome' = outcome
       ELSE /\ pc' = "done"
            /\ pending' = TRUE
            /\ outcome' = e

\* lines 102-110: GPIO setup, backlight on.
Setup ==
    /\ pc = "setup"
    /\ wire' = Append(wire, Event(PinStep(BL, HIGH), "ok"))
    /\ pc' = "open"
    /\ UNCHANGED <<ip, img, buf, exc, pending, shown, mark, win, outcome>>

\* line 114: the SPI bus opens.
SpiOpen ==
    /\ pc = "open"
    /\ wire' = Append(wire, CallEvent("spi_open", "ok"))
    /\ pc' = "opened"
    /\ UNCHANGED <<ip, img, buf, exc, pending, shown, mark, win, outcome>>

\* EnterTry, but the loop starts with no lcd_init call.
EnterTry_no_init ==
    /\ pc = "opened"
    /\ pc' = "loop"
    /\ UNCHANGED <<ip, img, buf, wire, exc, pending, shown, mark, win, outcome>>

\* line 115 (still inside the first try), then line 121-122: lcd_init(spi).
EnterTry ==
    /\ pc = "opened"
    /\ pc' = "lcd_init"
    /\ ip' = 1
    /\ UNCHANGED <<img, buf, wire, exc, pending, shown, mark, win, outcome>>

\* line 114 raises, caught at line 116.
SpiOpenFail ==
    /\ pc = "open"
    /\ wire' = Append(wire, CallEvent("spi_open", "error"))
    /\ Raise("Exception")
    /\ UNCHANGED <<img, buf, shown, mark, win>>

\* lines 117-119: GPIO.cleanup() and return.
OpenFailed ==
    /\ pc = "open_failed"
    /\ wire' = Append(wire, CallEvent("gpio_cleanup", "ok"))
    /\ pc' = "done"
    /\ outcome' = "returned"
    /\ UNCHANGED <<ip, img, buf, exc, pending, shown, mark, win>>

\* GPIO.output(pin, level) inside lcd_init.
PinWrite ==
    /\ AtOp("pin")
    /\ wire' = Append(wire, Event(Step, "ok"))
    /\ Advance
    /\ UNCHANGED <<img, buf, exc, pending, shown, mark, win, outcome>>

\* time.sleep(s) inside lcd_init.
Sleep ==
    /\ AtOp("sleep")
    /\ wire' = Append(wire, Event(Step, "ok"))
    /\ Advance
    /\ UNCHANGED <<img, buf, exc, pending, shown, mark, win, outcome>>

\* write_command, lines 45-49.
write_command ==
    /\ AtOp("cmd")
    /\ wire' = Append(wire, Event(Step, "ok"))
    /\ Advance
    /\ UNCHANGED <<img, buf, exc, pending, shown, mark, win, outcome>>

\* write_command: spi.command raises.
write_command_fail ==
    /\ AtOp("cmd")
    /\ wire' = Append(wire, Event(Step, "error"))
    /\ Raise("Exception")
    /\ UNCHANGED <<img, buf, shown, mark, win>>

\* write_data, lines 51-56.
write_data ==
    /\ AtOp("data")
    /\ wire' = Append(wire, Event(Step, "ok"))
    /\ Advance
    /\ UNCHANGED <<img, buf, exc, pending, shown, mark, win, outcome>>

\* write_data: spi.data raises.
write_data_fail ==
    /\ AtOp("data")
    /\ wire' = Append(wire, Event(Step, "error"))
    /\ Raise("Exception")
    /\ UNCHANGED <<img, buf, shown, mark, win>>

\* lines 126-127 / 129-130: the next display_image call of the loop.
LoopCall ==
    /\ pc = "loop"
    /\ shown < MaxFrames
    /\ img' = LoopImage(shown)
    /\ shown' = shown + 1
    /\ buf' = << >>
    /\ mark' = Len(wire)
    /\ pc' = "display_image"
    /\ ip' = 1
    /\ UNCHANGED <<wire, exc, pending, win, outcome>>

\* Encode, but the encoding arms the controller with a RAMWR command.
Encode_sends ==
    /\ AtOp("encode")
    /\ ~EncodeRaises(img)
    /\ buf' = EncodeImage(img)
    /\ wire' = Append(wire, Event(CmdStep(ST7735_RAMWR), "ok"))
    /\ Advance
    /\ UNCHANGED <<img, exc, pending, shown, mark, win, outcome>>

\* lines 86-94: the encoding loops fill buf.
Encode ==
    /\ AtOp("encode")
    /\ ~EncodeRaises(img)
    /\ buf' = EncodeImage(img)
    /\ Advance
    /\ UNCHANGED <<img, wire, exc, pending, shown, mark, win, outcome>>

\* line 90 raises IndexError.
EncodeFail ==
    /\ AtOp("encode")
    /\ EncodeRaises(img)
    /\ Raise("Exception")
    /\ UNCHANGED <<img, buf, wire, shown, mark, win>>

\* lines 128 / 131: time.sleep(5), then the loop goes round.
Dwell ==
    /\ pc = "dwell"
    /\ wire' = Append(wire, Event(SleepStep(5000), "ok"))
    /\ pc' = "loop"
    /\ buf' = << >>
    /\ UNCHANGED <<ip, img, exc, pending, shown, mark, win, outcome>>

\* KeyboardInterrupt, raised between two statements of main().
Interrupt ==
    /\ pc \notin {"done", "returned"}
    /\ Raise("KeyboardInterrupt")
    /\ UNCHANGED <<img, buf, wire, shown, mark, win>>

\* KeyboardInterrupt raised inside spi.command / spi.data: the frame is cut.
InterruptWrite ==
    /\ AtOp("cmd") \/ AtOp("data")
    /\ wire' = Append(wire, Event(Step, "interrupted"))
    /\ Raise("KeyboardInterrupt")
    /\ UNCHANGED <<img, buf, shown, mark, win>>

\* lines 132-133: KeyboardInterrupt is logged; then the finally block.
HandleInterrupt ==
    /\ pc = "except_kbd"
    /\ pc' = "finally_bl"
    /\ UNCHANGED <<ip, img, buf, wire, exc, pending, shown, mark, win, outcome>>

\* lines 134-135: the Exception is logged; then the finally block.
HandleException ==
    /\ pc = "except_exc"
    /\ pc' = "finally_bl"
    /\ UNCHANGED <<ip, img, buf, wire, exc, pending, shown, mark, win, outcome>>

\* line 137: GPIO.output(BL, GPIO.LOW).
BacklightOff ==
    /\ pc = "finally_bl"
    /\ wire' = Append(wire, Event(PinStep(BL, LOW), "ok"))
    /\ pc' = "finally_gpio"
    /\ UNCHANGED <<ip, img, buf, exc, pending, shown, mark, win, outcome>>

\* GpioCleanup, but a display-off command (0x28) is sent to the panel first.
GpioCleanup_display_off ==
    /\ pc = "finally_gpio"
    /\ wire' = wire \o << Event(CmdStep(40), "ok"), CallEvent("gpio_cleanup", "ok") >>
    /\ pc' = "finally_spi"
    /\ UNCHANGED <<ip, img, buf, exc, pending, shown, mark, win, outcome>>

\* line 138: GPIO.cleanup().
GpioCleanup ==
    /\ pc = "finally_gpio"
    /\ wire' = Append(wire, CallEvent("gpio_cleanup", "ok"))
    /\ pc' = "finally_spi"
    /\ UNCHANGED <<ip, img, buf, exc, pending, shown, mark, win, outcome>>

\* lines 139-140: spi.cleanup(); main() ends.
SpiCleanup ==
    /\ pc = "finally_spi"
    /\ wire' = Append(wire, CallEvent("spi_cleanup", "ok"))
    /\ pc' = "done"
    /\ outcome' = IF pending THEN exc ELSE "returned"
    /\ UNCHANGED <<ip, img, buf, exc, pending, shown, mark, win>>

Next ==
    \/ Setup
    \/ SpiOpen
    \/ EnterTry
    \/ SpiOpenFail
    \/ OpenFailed
    \/ PinWrite
    \/ Sleep
    \/ write_command
    \/ write_command_fail
    \/ write_data
    \/ write_data_fail
    \/ LoopCall
    \/ Encode
    \/ Dwell
    \/ Interrupt
    \/ InterruptWrite
    \/ HandleInterrupt
    \/ HandleException
    \/ BacklightOff
    \/ GpioCleanup
    \/ SpiCleanup

Spec == Init /\ [][Next]_vars

\* ------------------------------------------------------------------
\* A direct call display_image(spi, im) on an open bus, for an image of the
\* caller's choice: the panel's size or up to SizeSlack off in one direction,
\* of one colour or a gradient.

TestShapes ==
    { <<WIDTH, HEIGHT>> }
    \cup { <<WIDTH + d, HEIGHT>> : d \in (0 - SizeSlack) .. SizeSlack }
    \cup { <<WIDTH, HEIGHT + d>> : d \in (0 - SizeSlack) .. SizeSlack }

TestContents ==
    { <<c, FALSE>> : c \in { <<255, 0, 0>>, <<0, 255, 0>>, <<0, 0, 255>>,
                             <<255, 255, 255>> } }
    \cup { <<c, TRUE>> : c \in { <<7, 3, 250>> } }

TestImages ==
    { Image(sh[1], sh[2], ct[1], ct[2]) : sh \in TestShapes, ct \in TestContents }

InitDisplayImage ==
    /\ pc = "call_display_image"
    /\ ip = 1
    /\ img \in TestImages
    /\ win = <<0, 0, 0, 0>>
    /\ buf = << >>
    /\ wire = << >>
    /\ exc = "none"
    /\ pending = FALSE
    /\ shown = 0
    /\ mark = 0
    /\ outcome = "running"

NextDisplayImage ==
    \/ Encode
    \/ EncodeFail
    \/ write_command
    \/ write_command_fail
    \/ write_data
    \/ write_data_fail
    \/ Interrupt
    \/ InterruptWrite

SpecDisplayImage == InitDisplayImage /\ [][NextDisplayImage]_vars

\* ------------------------------------------------------------------
\* A direct call set_window(spi, x0, y0, x1, y1) on an open bus, for
\* coordinates of the caller's choice, inside the panel and outside it.

TestCoords == {0, 1, 64, WIDTH - 1, WIDTH, 255}

InitSetWindow ==
    /\ pc = "call_set_window"
    /\ ip = 1
    /\ img = NoImage
    /\ win \in TestCoords \X TestCoords \X TestCoords \X TestCoords
    /\ buf = << >>
    /\ wire = << >>
    /\ exc = "none"
    /\ pending = FALSE
    /\ shown = 0
    /\ mark = 0
    /\ outcome = "running"

NextSetWindow ==
    \/ write_command
    \/ write_command_fail
    \/ write_data
    \/ write_data_fail
    \/ Interrupt
    \/ InterruptWrite

SpecSetWindow == InitSetWindow /\ [][NextSetWindow]_vars

\* ==================================================================
\* Properties.

IsFrame(e) == e.op \in {"cmd", "data"}
Frames(w) == SelectSeq(w, IsFrame)

IsBacklightOff(e) == e.op = "pin" /\ e.arg = <<BL, LOW>>
IsGpioCleanup(e) == e.op = "gpio_cleanup"
IsSpiCleanup(e) == e.op = "spi_cleanup"

BacklightOffCount == Len(SelectSeq(wire, IsBacklightOff))
GpioCleanupCount == Len(SelectSeq(wire, IsGpioCleanup))
SpiCleanupCount == Len(SelectSeq(wire, IsSpiCleanup))

\* w is a prefix of the frames `expected`, call by call: same kind, same
\* bytes, and only the last one may have failed or been cut.
FramePrefix(w, expected) ==
    /\ Len(w) <= Len(expected)
    /\ \A i \in 1 .. Len(w) :
          /\ w[i].op = expected[i].op
          /\ w[i].arg = expected[i].arg
          /\ (w[i].res # "ok" => i = Len(w))

AllOk(w) == \A i \in 1 .. Len(w) : w[i].res = "ok"

\* ---- C1 ----
\* C1: every run of main() that has ended without a user interruption (it
\* ended by a transport open failure or a transport write failure; the loop
\* has no normal end) drove the backlight pin low exactly once and called
\* GPIO.cleanup and spi.cleanup exactly once each.  The claim says so for
\* the runs ended by a user interruption as well.
C1_ShutdownExactlyOnce ==
    (pc = "done" /\ exc = "Exception") =>
        /\ BacklightOffCount = 1
        /\ GpioCleanupCount = 1
        /\ SpiCleanupCount = 1

\* ---- C2 ----
InitFrames ==
    << [op |-> "cmd", arg |-> 1], [op |-> "cmd", arg |-> 17],
       [op |-> "cmd", arg |-> 58], [op |-> "data", arg |-> <<5>>],
       [op |-> "cmd", arg |-> 41] >>

\* C2: until the first display_image call, the frames on the wire are
\* the frames of lcd_init: they are, in order, command 0x01, command 0x11,
\* command 0x3A, data [0x05], command 0x29, and nothing else; all five have
\* been sent when lcd_init has returned.
C2_InitSequence ==
    shown = 0 =>
        /\ FramePrefix(Frames(wire), InitFrames)
        /\ (pc = "loop" => Len(Frames(wire)) = 5 /\ AllOk(Frames(wire)))

C2_Witness ==
    /\ shown = 0
    /\ pc = "loop"
    /\ Len(Frames(wire)) = 5

\* ---- C3 ----
WindowFrames(x0, y0, x1, y1) ==
    << [op |-> "cmd", arg |-> 42], [op |-> "data", arg |-> <<0, x0, 0, x1>>],
       [op |-> "cmd", arg |-> 43], [op |-> "data", arg |-> <<0, y0, 0, y1>>],
       [op |-> "cmd", arg |-> 44] >>

\* C3: for x0, y0, x1, y1 in 0..127 a set_window call emits command 0x2A,
\* data [0, x0, 0, x1], command 0x2B, data [0, y0, 0, y1], command 0x2C, in
\* this order and nothing else: exactly these five frames when it has
\* returned; for (0, 0, 127, 127) both data frames are [0, 0, 0, 127].
C3_SetWindowFrames ==
    (\A k \in 1 .. 4 : win[k] \in 0 .. 127) =>
        /\ FramePrefix(wire, WindowFrames(win[1], win[2], win[3], win[4]))
        /\ (pc = "returned" => Len(wire) = 5 /\ AllOk(wire))
        /\ (pc = "returned" /\ win = <<0, 0, 127, 127>> =>
               /\ wire[2].arg = <<0, 0, 0, 127>>
               /\ wire[4].arg = <<0, 0, 0, 127>>)

C3_Witness ==
    /\ pc = "returned"
    /\ win = <<0, 0, 127, 127>>
    /\ Len(wire) = 5

\* ---- C4 ----
\* C4: no data frame of four bytes [0, a, 0, b] (the CASET / RASET
\* payload) put on the wire by set_window has a > b, or a or b outside
\* 0..127.
C4_WindowValid ==
    \A i \in 1 .. Len(wire) :
        (wire[i].op = "data" /\ Len(wire[i].arg) = 4) =>
            /\ wire[i].arg[2] <= wire[i].arg[4]
            /\ wire[i].arg[2] \in 0 .. 127
            /\ wire[i].arg[4] \in 0 .. 127

\* ---- C5 ----
IsResetOrSleep(e) == (e.op = "pin" /\ e.arg[1] = RST) \/ e.op = "sleep"
IsFrameAt(i) == IsFrame(wire[i])
HasFrame == \E i \in 1 .. Len(wire) : IsFrameAt(i)
FirstFrame == CHOOSE i \in 1 .. Len(wire) :
                  IsFrameAt(i) /\ \A j \in 1 .. i - 1 : ~IsFrameAt(j)
\* The reset pin writes and the sleeps before the first frame.
BeforeFrames ==
    SelectSeq(SubSeq(wire, 1, IF HasFrame THEN FirstFrame - 1 ELSE Len(wire)),
              IsResetOrSleep)
ResetLevels == <<1, 0, 1>>

\* C5: the reset pin writes and sleeps before the first frame are: pin high,
\* sleep, pin low, sleep, pin high, sleep, in this order, each sleep of at
\* least 100 ms; all six are done when the first frame (command 0x01) is
\* sent.
C5_ResetSequence ==
    /\ Len(BeforeFrames) <= 6
    /\ \A i \in 1 .. Len(BeforeFrames) :
          IF i % 2 = 1
          THEN /\ BeforeFrames[i].op = "pin"
               /\ BeforeFrames[i].arg = <<RST, ResetLevels[(i + 1) \div 2]>>
          ELSE /\ BeforeFrames[i].op = "sleep"
               /\ BeforeFrames[i].arg >= 100
    /\ (HasFrame =>
          /\ Len(BeforeFrames) = 6
          /\ wire[FirstFrame].op = "cmd"
          /\ wire[FirstFrame].arg = 1)

C5_Witness ==
    /\ HasFrame
    /\ wire[FirstFrame].res = "ok"
    /\ Len(BeforeFrames) = 6

\* ---- C6 ----
\* The sleep, in ms, of the events i < k < j of the wire.
RECURSIVE SleptBetween(_, _)
SleptBetween(i, j) ==
    IF i + 1 >= j THEN 0
    ELSE (IF wire[i + 1].op = "sleep" THEN wire[i + 1].arg ELSE 0)
         + SleptBetween(i + 1, j)

IsCmdAt(i, c) == wire[i].op = "cmd" /\ wire[i].arg = c
\* j is the frame that follows frame i.
NextFrameAt(i, j) ==
    /\ i < j
    /\ IsFrameAt(i)
    /\ IsFrameAt(j)
    /\ \A k \in i + 1 .. j - 1 : ~IsFrameAt(k)

\* C6: between command 0x01 and the frame after it at least 150 ms are
\* slept, between command 0x11 and the frame after it at least 150 ms,
\* between command 0x29 and the frame after it (the first window command)
\* at least 100 ms, and nothing is slept between command 0x3A and its data
\* byte.
C6_InitDelays ==
    \A i \in 1 .. Len(wire) : \A j \in 1 .. Len(wire) :
        NextFrameAt(i, j) =>
            /\ (IsCmdAt(i, 1) => SleptBetween(i, j) >= 150)
            /\ (IsCmdAt(i, 17) => SleptBetween(i, j) >= 150)
            /\ (IsCmdAt(i, 41) => SleptBetween(i, j) >= 100)
            /\ (IsCmdAt(i, 58) =>
                   /\ j = i + 1
                   /\ wire[j].op = "data"
                   /\ wire[j].arg = <<5>>)

C6_Witness ==
    \E i \in 1 .. Len(wire) : \E j \in 1 .. Len(wire) :
        /\ NextFrameAt(i, j)
        /\ IsCmdAt(i, 41)
        /\ IsCmdAt(j, 42)
        /\ wire[j].res = "ok"

\* ---- C7 ----
\* The events of the current display_image / set_window call.
CallEvents == SubSeq(wire, mark + 1, Len(wire))

\* C7: a display_image call puts on the wire the window frames of
\* (0, 0, 127, 127) and then one data frame, and nothing else, in this
\* order; when it has returned, it has sent exactly these six frames, and
\* the data frame carries the encoded frame, 32768 bytes.
C7_DisplayFrames ==
    /\ (pc \in {"display_image", "dwell"} =>
          /\ Len(CallEvents) <= 6
          /\ FramePrefix(SubSeq(CallEvents, 1, IF Len(CallEvents) < 5
                                                THEN Len(CallEvents) ELSE 5),
                         WindowFrames(0, 0, 127, 127)))
    /\ (pc = "dwell" =>
          /\ Len(CallEvents) = 6
          /\ AllOk(CallEvents)
          /\ CallEvents[6].op = "data"
          /\ Len(CallEvents[6].arg) = 32768
          /\ CallEvents[6].arg = buf)

C7_Witness ==
    /\ pc = "dwell"
    /\ Len(CallEvents) = 6
    /\ CallEvents[6].res = "ok"

\* ---- C8 ----
\* The encoding loops of a direct display_image call have just finished.
Encoded == pc = "call_display_image" /\ ip = 2

\* The 16-bit value of a pixel: 5 bits of R, 6 bits of G, 5 bits of B.
Packed(p) == (p[1] \div 8) * 2048 + (p[2] \div 4) * 32 + (p[3] \div 8)

\* C8: after encoding, the bytes of pixel (x, y) are at the (0-based)
\* indices 2*(y*128+x) and 2*(y*128+x)+1 of buf, high byte first, of the
\* 16-bit value RRRRRGGG GGGBBBBB, each in 0..255; (255,0,0) gives [0xF8,
\* 0x00], (0,255,0) gives [0x07, 0xE0], (0,0,255) gives [0x00, 0x1F] and
\* (255,255,255) gives [0xFF, 0xFF]; and for every value 0..255 of one
\* channel alone the two bytes are those of that value.
C8_PixelEncoding ==
    Encoded =>
        /\ Len(buf) = 32768
        /\ \A y \in 0 .. 127 : \A x \in 0 .. 127 :
              LET p == PixelAt(img, x, y)
                  k == 2 * (y * 128 + x)
              IN  /\ buf[k + 1] = Packed(p) \div 256
                  /\ buf[k + 2] = Packed(p) % 256
                  /\ buf[k + 1] \in 0 .. 255
                  /\ buf[k + 2] \in 0 .. 255
        /\ (~img.grad /\ img.c = <<255, 0, 0>> => SubSeq(buf, 1, 2) = <<248, 0>>)
        /\ (~img.grad /\ img.c = <<0, 255, 0>> => SubSeq(buf, 1, 2) = <<7, 224>>)
        /\ (~img.grad /\ img.c = <<0, 0, 255>> => SubSeq(buf, 1, 2) = <<0, 31>>)
        /\ (~img.grad /\ img.c = <<255, 255, 255>> => SubSeq(buf, 1, 2) = <<255, 255>>)
        /\ \A c \in 0 .. 255 :
              /\ EncodePixel(<<c, 0, 0>>) = <<c - (c % 8), 0>>
              /\ EncodePixel(<<0, c, 0>>) = <<c \div 32, ((c \div 4) % 8) * 32>>
              /\ EncodePixel(<<0, 0, c>>) = <<0, c \div 8>>

C8_Witness ==
    /\ Encoded
    /\ img.grad
    /\ Len(buf) = 32768
    /\ buf[1] # buf[3]

\* ---- C9 ----
\* C9 as claimed: the encoder's output is 2 * width * height bytes long,
\* width and height being those of the image passed in.
C9_LengthFollowsImage ==
    Encoded => Len(buf) = 2 * img.w * img.h

\* C9 as amended: for an image at least as large as the panel the encoder's
\* output is 2 * 128 * 128 = 32768 bytes long whatever the image's size,
\* which is 2 * width * height for an image of the panel's size; for an
\* image smaller than the panel in a direction the encoder raises and no
\* output exists.
C9_LengthIsPanelSize ==
    /\ (Encoded =>
          /\ Len(buf) = 32768
          /\ img.w >= 128
          /\ img.h >= 128
          /\ (img.w = 128 /\ img.h = 128 => Len(buf) = 2 * img.w * img.h))
    /\ (img.w < 128 \/ img.h < 128 =>
          /\ buf = << >>
          /\ wire = << >>
          /\ \/ pc = "call_display_image" /\ ip = 1
             \/ pc = "done" /\ outcome \in {"Exception", "KeyboardInterrupt"})

C9_Witness ==
    /\ Encoded
    /\ img.w > 128 \/ img.h > 128
    /\ Len(buf) = 32768

\* ---- C10 ----
IsWriteError(i) == IsFrameAt(i) /\ wire[i].res = "error"
ShutdownEvents ==
    << Event(PinStep(BL, LOW), "ok"), CallEvent("gpio_cleanup", "ok"),
       CallEvent("spi_cleanup", "ok") >>

\* C10 as claimed: after a frame write that failed no frame is sent any
\* more, and when main() has ended the backlight was driven low and GPIO
\* and SPI were released after the failure.
C10_FailureThenCleanup ==
    \A i \in 1 .. Len(wire) :
        IsWriteError(i) =>
            /\ \A j \in i + 1 .. Len(wire) : ~IsFrameAt(j)
            /\ (pc = "done" => SubSeq(wire, i + 1, Len(wire)) = ShutdownEvents)

\* C10, the part about the frames alone: after a frame write that failed no
\* frame is sent any more, and the failure is caught by the handler of
\* lines 134-135 (it does not leave main() at once).
C10_NoFrameAfterFailure ==
    \A i \in 1 .. Len(wire) :
        IsWriteError(i) =>
            /\ \A j \in i + 1 .. Len(wire) : ~IsFrameAt(j)
            /\ (i = Len(wire) /\ exc = "Exception" =>
                   pc \in {"except_exc", "finally_bl"})


\* ---- C11 ----
HasWriteError == \E i \in 1 .. Len(wire) : IsWriteError(i)

\* C11 as claimed: a run of main() in which a command or data frame write
\* failed, and which no user interruption cut short afterwards, ends with
\* the error as its outcome: the exception leaves main(), unlike in a run
\* ended by a user interruption, which returns normally.
C11_WriteFailurePropagates ==
    (pc = "done" /\ exc = "Exception" /\ HasWriteError) => outcome = "Exception"

\* C11, what the code does: every run ended by a write failure alone, and
\* every run ended by one user interruption inside the try block of lines
\* 121-131, returns normally from main(): the two have the same outcome.
C11_SameOutcome ==
    (pc = "done" /\ ~pending /\ exc \in {"Exception", "KeyboardInterrupt"}) =>
        outcome = "returned"

\* ---- C12 ----
OpenFailedAt(i) == wire[i].op = "spi_open" /\ wire[i].res = "error"
IsResetWrite(e) == e.op = "pin" /\ e.arg[1] = RST

\* C12 as claimed: when the SPI bus could not be opened, no reset pin write
\* and no command or data frame is ever made, and when main() has ended
\* GPIO.cleanup() was called after the failure.
C12_OpenFailureCleanup ==
    \A i \in 1 .. Len(wire) :
        OpenFailedAt(i) =>
            /\ \A j \in 1 .. Len(wire) :
                  ~IsResetWrite(wire[j]) /\ ~IsFrameAt(j)
            /\ (pc = "done" =>
                   \E j \in i + 1 .. Len(wire) : IsGpioCleanup(wire[j]))

\* C12, the part about initialization alone: when the SPI bus could not be
\* opened, no reset pin write and no frame is ever made, lcd_init is never
\* entered, and the failure is caught by the handler of lines 116-119.
C12_NeverInitializes ==
    \A i \in 1 .. Len(wire) :
        OpenFailedAt(i) =>
            /\ \A j \in 1 .. Len(wire) :
                  ~IsResetWrite(wire[j]) /\ ~IsFrameAt(j)
            /\ pc \in {"open_failed", "done"}
            /\ (exc = "Exception" /\ pc = "done" =>
                   wire[Len(wire)] = CallEvent("gpio_cleanup", "ok"))

\* ---- C13 ----
BusOpened == \E i \in 1 .. Len(wire) : wire[i].op = "spi_open" /\ wire[i].res = "ok"

\* C13 as claimed: when a user interruption arrived after the SPI bus was
\* opened and main() has ended, the last calls of main() were backlight
\* low, GPIO.cleanup() and spi.cleanup(), in this order.
C13_InterruptThenCleanup ==
    (pc = "done" /\ exc = "KeyboardInterrupt" /\ BusOpened) =>
        /\ Len(wire) >= 3
        /\ SubSeq(wire, Len(wire) - 2, Len(wire)) = ShutdownEvents

\* C13, the part about the frames alone: once a user interruption has been
\* raised no frame is put on the wire any more.
C13_NoFrameAfterInterrupt ==
    [][exc = "KeyboardInterrupt" => Frames(wire') = Frames(wire)]_vars

\* ---- C14 ----
CmdCount(c) == Cardinality({i \in 1 .. Len(wire) : IsCmdAt(i, c)})
ResetWriteCount(level) ==
    Cardinality({i \in 1 .. Len(wire) :
                    wire[i].op = "pin" /\ wire[i].arg = <<RST, level>>})

\* C14: in a run of main() each of the commands 0x01, 0x11, 0x3A, 0x29 is
\* put on the wire at most once (a write that failed or was cut counts),
\* the reset pin is driven low at most once and high at most twice (the
\* one reset pulse of lcd_init), and no reset pin write follows a frame,
\* be it sent, failed or cut.
C14_InitAtMostOnce ==
    /\ \A c \in {1, 17, 58, 41} : CmdCount(c) <= 1
    /\ ResetWriteCount(LOW) <= 1
    /\ ResetWriteCount(HIGH) <= 2
    /\ \A i \in 1 .. Len(wire) : \A j \in 1 .. Len(wire) :
          (i < j /\ IsFrameAt(i)) => ~IsResetWrite(wire[j])

\* A write of lcd_init failed, main() has ended, and the initialization
\* was not tried again.
C14_Witness ==
    /\ pc = "done"
    /\ exc = "Exception"
    /\ \E i \in 1 .. Len(wire) : IsWriteError(i) /\ IsCmdAt(i, 17)
    /\ CmdCount(1) = 1
    /\ ResetWriteCount(LOW) = 1

\* ---- C15 ----
\* A step that runs the encoding loops of lines 86-94 to their end.
EncodeDone == AtOp("encode") /\ ip' = ip + 1

\* C15: a run of the encoding loops sends no frame and writes no pin (the
\* wire is as before), leaves the image and the window as they were and
\* raises nothing, and its output is a function of the image's pixels
\* alone: 32768 bytes, the two of pixel (x, y) being those of its 16-bit
\* value, whatever was in the buffer or on the wire before.
C15_EncodePure ==
    [][EncodeDone =>
          /\ wire' = wire
          /\ img' = img
          /\ win' = win
          /\ exc' = exc
          /\ outcome' = outcome
          /\ Len(buf') = 32768
          /\ \A y \in 0 .. 127 : \A x \in 0 .. 127 :
                LET v == Packed(PixelAt(img, x, y))
                    k == 2 * (y * 128 + x)
                IN  buf'[k + 1] = v \div 256 /\ buf'[k + 2] = v % 256]_vars

C15_Witness ==
    /\ Encoded
    /\ wire = << >>
    /\ ~img.grad
    /\ img.c = <<0, 255, 0>>
    /\ SubSeq(buf, 32767, 32768) = <<7, 224>>

\* ---- C16 ----
\* The reset sequence and the initialization sequence with their delays.
InitPattern ==
    << [op |-> "pin", arg |-> <<RST, 1>>], [op |-> "sleep", arg |-> 100],
       [op |-> "pin", arg |-> <<RST, 0>>], [op |-> "sleep", arg |-> 100],
       [op |-> "pin", arg |-> <<RST, 1>>], [op |-> "sleep", arg |-> 100],
       [op |-> "cmd", arg |-> 1], [op |-> "sleep", arg |-> 150],
       [op |-> "cmd", arg |-> 17], [op |-> "sleep", arg |-> 150],
       [op |-> "cmd", arg |-> 58], [op |-> "data", arg |-> <<5>>],
       [op |-> "cmd", arg |-> 41], [op |-> "sleep", arg |-> 100] >>

Matches(e, p) ==
    /\ e.op = p.op
    /\ e.res = "ok"
    /\ IF p.op = "sleep" THEN e.arg >= p.arg ELSE e.arg = p.arg

IsInitEvent(e) == IsResetOrSleep(e) \/ IsFrame(e)

\* The first k events of the wire hold the whole of InitPattern, done.
InitComplete(k) ==
    LET w == SelectSeq(SubSeq(wire, 1, k), IsInitEvent)
    IN  /\ Len(w) >= Len(InitPattern)
        /\ \A n \in 1 .. Len(InitPattern) : Matches(w[n], InitPattern[n])

\* A window command, or a data frame other than the parameter of COLMOD.
IsStreamFrame(i) ==
    \/ wire[i].op = "cmd" /\ wire[i].arg \in {42, 43, 44}
    \/ wire[i].op = "data" /\ wire[i].arg # <<5>>

\* C16: every window command (0x2A, 0x2B, 0x2C) and every window or pixel
\* data frame on the wire comes after the whole reset sequence and the
\* whole initialization sequence, the delay after 0x29 included, all done
\* without failure; a display_image call (Streaming) starts only from the
\* loop of lines 125-131 (Ready), which is reached only from the end of
\* lcd_init or from the dwell after a frame; the cleanup is reached only
\* from a handler.
C16_StateOrder ==
    /\ [](\A i \in 1 .. Len(wire) : IsStreamFrame(i) => InitComplete(i - 1))
    /\ [][/\ (pc' = "display_image" /\ pc # "display_image" => pc = "loop")
          /\ (pc' = "loop" /\ pc # "loop" =>
                 \/ pc = "lcd_init" /\ ip = Len(lcd_init)
                 \/ pc = "dwell")
          /\ (pc' = "lcd_init" /\ pc # "lcd_init" => pc = "opened")
          /\ (pc' = "finally_bl" => pc \in {"except_kbd", "except_exc"})]_vars

C16_Witness ==
    /\ pc = "display_image"
    /\ shown = 1
    /\ \E i \in 1 .. Len(wire) :
          IsCmdAt(i, 42) /\ wire[i].res = "ok" /\ InitComplete(i - 1)

\* ---- C17 ----
IsShutdownStart(i) == IsBacklightOff(wire[i])
IsShutdownEvent(e) == IsBacklightOff(e) \/ IsGpioCleanup(e) \/ IsSpiCleanup(e)

\* C17: after the backlight pin was driven low (line 137) there is no
\* command frame and no data frame on the wire, nor any other event than
\* GPIO.cleanup() and spi.cleanup(), in this order and once each; the same
\* after spi.cleanup(): nothing follows it.
C17_ShutdownSilent ==
    \A i \in 1 .. Len(wire) :
        /\ (IsShutdownStart(i) =>
               /\ \A j \in i + 1 .. Len(wire) : ~IsFrameAt(j)
               /\ FramePrefix(SubSeq(wire, i, Len(wire)), ShutdownEvents)
               /\ AllOk(SubSeq(wire, i, Len(wire))))
        /\ (IsSpiCleanup(wire[i]) => i = Len(wire))

\* The cleanup has run to its end after a frame was cut by an interruption.
C17_Witness ==
    /\ pc = "done"
    /\ Len(wire) >= 4
    /\ SubSeq(wire, Len(wire) - 2, Len(wire)) = ShutdownEvents
    /\ IsFrameAt(Len(wire) - 3)
    /\ wire[Len(wire) - 3].res = "interrupted"

\* ---- C18 ----
IsPixelFrame(e) == e.op = "data" /\ Len(e.arg) > 4
PixelFrames == SelectSeq(wire, IsPixelFrame)

\* Every pixel of the frame b has the two bytes hi, lo.
IsSolid(b, hi, lo) ==
    /\ Len(b) = 32768
    /\ \A k \in 1 .. 16384 : b[2 * k - 1] = hi /\ b[2 * k] = lo

\* C18: as long as no write has failed and no interruption was raised,
\* main() is in its setup, in lcd_init or in the loop (it has not reached a
\* handler, the cleanup or its end); the frames sent so far are red
\* (0xF8 0x00 throughout), blue (0x00 0x1F throughout), red, blue, ... in
\* turn, the first one red; the image of the k-th display_image call is the
\* red one for odd k and the blue one for even k; and each frame sent is
\* followed at once by a sleep of 5000 ms, before anything else is put on
\* the wire.
C18_Alternation ==
    exc = "none" =>
        /\ pc \in {"setup", "open", "opened", "lcd_init", "loop",
                   "display_image", "dwell"}
        /\ AllOk(wire)
        /\ \A k \in 1 .. Len(PixelFrames) :
              IF k % 2 = 1
              THEN IsSolid(PixelFrames[k].arg, 248, 0)
              ELSE IsSolid(PixelFrames[k].arg, 0, 31)
        /\ (pc \in {"display_image", "dwell"} =>
               /\ img = (IF shown % 2 = 1 THEN img_red ELSE img_blue)
               /\ Len(PixelFrames) = (IF pc = "dwell" THEN shown ELSE shown - 1))
        /\ (pc = "loop" => Len(PixelFrames) = shown)
        /\ \A i \in 1 .. Len(wire) :
              IsPixelFrame(wire[i]) =>
                 IF i = Len(wire) THEN pc = "dwell"
                 ELSE wire[i + 1] = Event(SleepStep(5000), "ok")

\* The red frame was sent, 5 s were slept, and the second call is for the
\* blue image.
C18_Witness ==
    /\ exc = "none"
    /\ pc = "display_image"
    /\ ip = 1
    /\ shown = 2
    /\ img = img_blue
    /\ Len(PixelFrames) = 1
    /\ wire[Len(wire)] = Event(SleepStep(5000), "ok")

\* ---- C19 ----
\* C19: every command on the wire is one frame of one byte (a value in
\* 0..255); every data frame comes right after a command frame that was
\* sent whole, one of 0x3A, 0x2A, 0x2B, 0x2C, so two data frames are never
\* next to each other; and as long as no write has failed and no
\* interruption was raised, a command 0x2C is followed at once by one data
\* frame, the pixels, and that one by no second data frame: if nothing
\* follows the 0x2C yet, the write of the pixels is the next step.
C19_Framing ==
    /\ \A i \in 1 .. Len(wire) :
          /\ (wire[i].op = "cmd" => wire[i].arg \in 0 .. 255)
          /\ (wire[i].op = "data" =>
                 /\ i > 1
                 /\ wire[i - 1].op = "cmd"
                 /\ wire[i - 1].res = "ok"
                 /\ wire[i - 1].arg \in {58, 42, 43, 44})
          /\ (wire[i].op = "data" /\ i < Len(wire) => wire[i + 1].op # "data")
    /\ (exc = "none" =>
          \A i \in 1 .. Len(wire) :
              IsCmdAt(i, 44) =>
                 IF i = Len(wire)
                 THEN pc = "display_image" /\ AtOp("data") /\ Step.arg = buf
                 ELSE /\ IsPixelFrame(wire[i + 1])
                      /\ wire[i + 1].res = "ok"
                      /\ (i + 2 <= Len(wire) => wire[i + 2].op # "data"))

C19_Witness ==
    /\ exc = "none"
    /\ Len(wire) >= 2
    /\ IsCmdAt(Len(wire) - 1, 44)
    /\ IsPixelFrame(wire[Len(wire)])
    /\ wire[Len(wire)].res = "ok"
    /\ shown = 1

\* ---- C20 ----
\* C20: in a display_image call no frame is put on the wire before the
\* encoding loops have run to their end: while frames of the call are on
\* the wire the buffer is whole (32768 bytes) and its encoding did not
\* raise; and for an image the encoding raises on, no CASET, RASET or RAMWR
\* command and no data frame is ever on the wire, and the call ends with
\* the exception.
C20_EncodeBeforeWindow ==
    /\ (wire # << >> => Len(buf) = 32768 /\ ~EncodeRaises(img))
    /\ (EncodeRaises(img) =>
          /\ Frames(wire) = << >>
          /\ pc # "returned"
          /\ (pc = "done" /\ exc = "Exception" => outcome = "Exception"))

\* The encoding of an image one column short has raised.
C20_Witness ==
    /\ pc = "done"
    /\ exc = "Exception"
    /\ img.w = WIDTH - 1
    /\ img.h = HEIGHT
    /\ Frames(wire) = << >>

====
